---------------------------- MODULE Spec2Model ----------------------------
(***************************************************************************)
(* Flood-Risk-Prediction-tool: the geodetic engine (flood_tool/geo.py) and *)
(* the postcode locator (flood_tool/tool.py) as a state machine.           *)
(*                                                                         *)
(* numpy's float64 values are modelled by a binary floating point format   *)
(* with a 42-bit significand (three limbs of 14 bits, so that every        *)
(* intermediate product fits the model checker's integers), the special    *)
(* values NaN and +-Inf, and results chopped towards zero.  A number is    *)
(*     s * (h*B^2 + m*B + l) * 2^e,   h in [B/2, B)  (or h = m = l = 0).   *)
(* numpy's ndarrays are modelled by a shape and the row-major data, with   *)
(* numpy's broadcasting and reshape rules; an exception is a value of its  *)
(* own, which every later operation hands on.                              *)
(***************************************************************************)
EXTENDS Integers, Sequences, FiniteSets, TLC

(***************************************************************************)
(* float64 arithmetic                                                      *)
(***************************************************************************)
B == 16384
HB == 8192
EMAX == 982
EMIN == -1116

NaN == [k |-> "nan", s |-> 1, e |-> 0, h |-> 0, m |-> 0, l |-> 0]
Inf(s) == [k |-> "inf", s |-> s, e |-> 0, h |-> 0, m |-> 0, l |-> 0]
Zero == [k |-> "num", s |-> 1, e |-> 0, h |-> 0, m |-> 0, l |-> 0]

IsNaN(a) == a.k = "nan"
IsInf(a) == a.k = "inf"
IsZero(a) == a.k = "num" /\ a.h = 0
IsFinite(a) == a.k = "num"

\* a finite result, overflowing to Inf and underflowing to 0 as float64 does
Pack(s, e, h, m, l) ==
    IF e > EMAX THEN Inf(s)
    ELSE IF e < EMIN THEN Zero
    ELSE [k |-> "num", s |-> s, e |-> e, h |-> h, m |-> m, l |-> l]

BitLen(x) ==
    IF x >= 128
    THEN IF x >= 2048
         THEN IF x >= 8192 THEN 14 ELSE IF x >= 4096 THEN 13 ELSE 12
         ELSE IF x >= 512 THEN (IF x >= 1024 THEN 11 ELSE 10)
              ELSE IF x >= 256 THEN 9 ELSE 8
    ELSE IF x >= 8
         THEN IF x >= 32 THEN (IF x >= 64 THEN 7 ELSE 6)
              ELSE IF x >= 16 THEN 5 ELSE 4
         ELSE IF x >= 2 THEN (IF x >= 4 THEN 3 ELSE 2)
              ELSE x

\* three limbs with h # 0, moved up by the k bits that h lacks
ShiftL(s, e, h, m, l, k) ==
    Pack(s, e - k,
         h * (2 ^ k) + ((m * (2 ^ k)) \div B),
         ((m * (2 ^ k)) % B) + ((l * (2 ^ k)) \div B),
         (l * (2 ^ k)) % B)

RECURSIVE Norm3(_, _, _, _, _)
Norm3(s, e, h, m, l) ==
    IF h = 0 /\ m = 0 /\ l = 0 THEN Zero
    ELSE IF h = 0 THEN Norm3(s, e - 14, m, l, 0)
    ELSE ShiftL(s, e, h, m, l, 14 - BitLen(h))

\* four limbs with t3 # 0 of k bits, moved down by k bits
ShiftDown(s, e, t3, t2, t1, t0, k) ==
    Pack(s, e + k,
         (t2 + t3 * B) \div (2 ^ k),
         (t1 + (t2 % (2 ^ k)) * B) \div (2 ^ k),
         (t0 + (t1 % (2 ^ k)) * B) \div (2 ^ k))

\* the number s * (t3*B^3 + t2*B^2 + t1*B + t0) * 2^e, chopped to 42 bits
Norm4(s, e, t3, t2, t1, t0) ==
    IF t3 = 0 THEN Norm3(s, e, t2, t1, t0)
    ELSE ShiftDown(s, e, t3, t2, t1, t0, BitLen(t3))

\* the same for a top limb that holds the carry: top*B^2 + (t1 % B)*B + (t0 % B)
NormTop(s, e, top, t1, t0) == Norm4(s, e, top \div B, top % B, t1 % B, t0 % B)

\* an integer literal of the source (|n| < 2^31)
FromInt(n) ==
    LET a == IF n < 0 THEN -n ELSE n
    IN  Norm4(IF n < 0 THEN -1 ELSE 1, 0, 0, a \div (B * B), (a \div B) % B, a % B)

FNeg(a) == IF IsNaN(a) \/ IsZero(a) THEN a ELSE [a EXCEPT !.s = -a.s]
FAbs(a) == IF IsNaN(a) THEN a ELSE [a EXCEPT !.s = 1]
Negate(a, yes) == IF yes THEN FNeg(a) ELSE a

ShiftR(h, m, l, d) ==
    IF d >= 42 THEN <<0, 0, 0>>
    ELSE LET q == d \div 14
             P == 2 ^ (d % 14)
             hh == IF q = 0 THEN h ELSE 0
             mm == IF q = 0 THEN m ELSE IF q = 1 THEN h ELSE 0
             ll == IF q = 0 THEN l ELSE IF q = 1 THEN m ELSE h
         IN  <<hh \div P, (mm + (hh % P) * B) \div P, (ll + (mm % P) * B) \div P>>

\* s * (c2*B^2 + c1*B + c0) * 2^e for limbs of either sign whose sum is not
\* negative: the carries are taken upwards
Carry(s, e, c2, c1, c0) ==
    NormTop(s, e, c2 + ((c1 + (c0 \div B)) \div B), c1 + (c0 \div B), c0)

\* (c2*B^2 + c1*B + c0) * 2^e for limbs of either sign: the sign of the sum
\* is the sign of its top limb after the carries
Signed(e, c2, c1, c0) ==
    IF c2 + ((c1 + (c0 \div B)) \div B) < 0
    THEN Carry(-1, e, -c2, -c1, -c0)
    ELSE Carry(1, e, c2, c1, c0)

\* a + b for finite nonzero a, b with a.e >= b.e; sh is |b| in a's scale
AddLimbs(a, bs, sh) ==
    Signed(a.e, a.s * a.h + bs * sh[1], a.s * a.m + bs * sh[2], a.s * a.l + bs * sh[3])

AddNum(a, b) == AddLimbs(a, b.s, ShiftR(b.h, b.m, b.l, a.e - b.e))

FAdd(a, b) ==
    CASE a.k = "nan" -> NaN
      [] b.k = "nan" -> NaN
      [] IsInf(a) -> (IF IsInf(b) /\ a.s # b.s THEN NaN ELSE a)
      [] IsInf(b) -> b
      [] IsZero(a) -> b
      [] IsZero(b) -> a
      [] OTHER -> AddNum(IF a.e >= b.e THEN a ELSE b, IF a.e >= b.e THEN b ELSE a)

FSub(a, b) == FAdd(a, FNeg(b))

\* the product's limbs from t2 = (a*b) \div B^2 upwards
MulTop(s, e, hh, t3, t2) == NormTop(s, e, hh + (t3 \div B), t3, t2)

MulLimbs(a, b, t2) ==
    MulTop(a.s * b.s, a.e + b.e + 28, a.h * b.h, a.h * b.m + a.m * b.h + (t2 \div B), t2)

FMul(a, b) ==
    CASE a.k = "nan" -> NaN
      [] b.k = "nan" -> NaN
      [] IsInf(a) \/ IsInf(b) -> (IF IsZero(a) \/ IsZero(b) THEN NaN ELSE Inf(a.s * b.s))
      [] IsZero(a) \/ IsZero(b) -> Zero
      [] OTHER ->
           LET t0 == a.l * b.l
               t1 == a.m * b.l + a.l * b.m + (t0 \div B)
           IN  MulLimbs(a, b, a.h * b.l + a.m * b.m + a.l * b.h + (t1 \div B))

GeMag(h, m, l, dh, dm, dl) ==
    h > dh \/ (h = dh /\ (m > dm \/ (m = dm /\ l >= dl)))

\* long division: a quotient digit q whose remainder came out negative is
\* lowered until the remainder top*B^3 + h*B^2 + m*B + l is in [0, divisor)
RECURSIVE DivFix(_, _, _, _, _, _, _, _)
DivFix(q, top, h, m, l, dh, dm, dl) ==
    IF top >= 0 THEN <<q, h, m, l>>
    ELSE LET c0 == l + dl
             c1 == m + dm + (c0 \div B)
             c2 == h + dh + (c1 \div B)
         IN  DivFix(q - 1, top + (c2 \div B), c2 % B, c1 % B, c0 % B, dh, dm, dl)

\* the remainder r2*B^2 + r1*B + r0 less qh times the divisor
DivDigit(qh, r2, r1, r0, dh, dm, dl) ==
    LET c0 == 0 - (qh * dl)
        c1 == r0 - qh * dm + (c0 \div B)
        c2 == r1 - qh * dh + (c1 \div B)
    IN  DivFix(qh, r2 + (c2 \div B), c2 % B, c1 % B, c0 % B, dh, dm, dl)

\* the next quotient digit and the remainder it leaves
DivStep(r2, r1, r0, dh, dm, dl) ==
    LET qh0 == (r2 * B + r1) \div dh
    IN  DivDigit(IF qh0 > B - 1 THEN B - 1 ELSE qh0, r2, r1, r0, dh, dm, dl)

\* the quotient's digits: those found, then the digit of the step st and of
\* the left steps after it
RECURSIVE LongDiv(_, _, _, _)
LongDiv(digits, st, b, left) ==
    IF left = 0 THEN digits \o <<st[1]>>
    ELSE LongDiv(digits \o <<st[1]>>, DivStep(st[2], st[3], st[4], b.h, b.m, b.l),
                 b, left - 1)

DivDigits(a, b, d) == Norm4(a.s * b.s, a.e - b.e - 42, d[1], d[2], d[3], d[4])

\* a / b for finite nonzero a, b, the leading digit q3 of the quotient given
DivNum(a, b, q3) ==
    LET c0 == a.l - q3 * b.l
        c1 == a.m - q3 * b.m + (c0 \div B)
        c2 == a.h - q3 * b.h + (c1 \div B)
    IN  DivDigits(a, b, LongDiv(<<q3>>, DivStep(c2, c1 % B, c0 % B, b.h, b.m, b.l), b, 2))

FDiv(a, b) ==
    CASE a.k = "nan" -> NaN
      [] b.k = "nan" -> NaN
      [] IsInf(a) -> (IF IsInf(b) THEN NaN ELSE Inf(a.s * b.s))
      [] IsInf(b) -> Zero
      [] IsZero(b) -> (IF IsZero(a) THEN NaN ELSE Inf(a.s))
      [] IsZero(a) -> Zero
      [] OTHER -> DivNum(a, b, IF GeMag(a.h, a.m, a.l, b.h, b.m, b.l) THEN 1 ELSE 0)

\* a / n for an integer literal n, 0 < |n| < B
FDivInt(a, n) ==
    IF a.k # "num" \/ IsZero(a) THEN (IF n > 0 THEN a ELSE FNeg(a))
    ELSE LET d == IF n < 0 THEN -n ELSE n
             x2 == (a.h % d) * B + a.m
             x1 == (x2 % d) * B + a.l
             x0 == (x1 % d) * B
         IN  Norm4(IF n > 0 THEN a.s ELSE -a.s, a.e - 14,
                   a.h \div d, x2 \div d, x1 \div d, x0 \div d)

FHalf(a) == IF a.k # "num" \/ IsZero(a) THEN a ELSE Pack(a.s, a.e - 1, a.h, a.m, a.l)

IsNegative(d) == d.k # "nan" /\ d.s = -1 /\ ~IsZero(d)

\* IEEE comparison: false when either side is NaN
FLt(a, b) == IF IsNaN(a) \/ IsNaN(b) THEN FALSE ELSE IsNegative(FSub(a, b))

FLe(a, b) == ~IsNaN(a) /\ ~IsNaN(b) /\ (a = b \/ FLt(a, b))

RECURSIVE ISqrt(_, _)
ISqrt(n, r) ==
    LET r2 == (r + (n \div r)) \div 2 IN IF r2 < r THEN ISqrt(n, r2) ELSE r

\* one step of Heron's iteration for the square root of a from the estimate y
Heron(a, y) == IF IsNaN(y) THEN NaN ELSE FHalf(FAdd(y, FDiv(a, y)))

\* the 28-bit integer estimate r of the root of a > 0 as a number
SqrtEstimate(a, r) == Norm4(1, (a.e + 14 - (a.e % 2)) \div 2, 0, 0, r \div B, r % B)

FSqrt(a) ==
    CASE a.k = "nan" -> NaN
      [] IsZero(a) -> Zero
      [] a.s = -1 -> NaN
      [] IsInf(a) -> a
      [] OTHER -> Heron(a, Heron(a, SqrtEstimate(a,
             ISqrt((a.h * B + a.m) * (1 + (a.e % 2)), 32768))))

(***************************************************************************)
(* numpy's sin, cos, tan, arctan2 and float power, each to the format's    *)
(* precision: the argument is reduced by a two-part constant, then a       *)
(* series is summed from its last term inwards.  A series takes its terms  *)
(* hi, hi - 1, ..., lo in this order, the upper half of them first.        *)
(***************************************************************************)
Num(e, h, m, l) == [k |-> "num", s |-> 1, e |-> e, h |-> h, m |-> m, l |-> l]
One == Num(-41, 8192, 0, 0)
Half == Num(-42, 8192, 0, 0)
pi == Num(-40, 12867, 15786, 2181)
HALFPI == Num(-41, 12867, 15786, 2181)
TWO_OVER_PI == Num(-42, 10430, 6198, 14649)
PIO2_1 == Num(-41, 12867, 15786, 0)
PIO2_2 == Num(-71, 8726, 8968, 13508)
LN2 == Num(-42, 11356, 8575, 8007)
INV_LN2 == Num(-41, 11818, 9138, 9584)
LN2_1 == Num(-42, 11356, 8575, 0)
LN2_2 == Num(-71, 16014, 7923, 5604)
SQRT2 == Num(-41, 11585, 3891, 4071)

FMulInt(a, n) == FMul(a, FromInt(n))

\* the floor of a finite nonzero a whose magnitude has the integer part mag
FloorMag(a, mag) ==
    IF a.s = 1 THEN mag ELSE IF FromInt(mag) = FAbs(a) THEN -mag ELSE -mag - 1

FloorShifted(a, sh) == FloorMag(a, sh[1] * B * B + sh[2] * B + sh[3])

\* floor of a finite number below 2^30 in size
ToInt(a) == IF IsZero(a) THEN 0 ELSE FloorShifted(a, ShiftR(a.h, a.m, a.l, -a.e))

\* the multiple of c nearest to a, c given by its reciprocal
Nearest(a, inverse) == ToInt(FAdd(FMul(a, inverse), Half))

\* a - q * c for the constant c = c1 + c2 in two parts
Reduce(a, q, c1, c2) == FSub(FSub(a, FMulInt(c1, q)), FMulInt(c2, q))

\* 1 - r2/((2n-1+off)(2n+off)) * (1 - ... ), the Taylor series of sin r / r
\* (off = 1) and of cos r (off = 0) in r2 = r^2
RECURSIVE Horner(_, _, _, _, _)
Horner(r2, lo, hi, acc, off) ==
    IF IsNaN(acc) THEN NaN
    ELSE IF lo = hi
    THEN FSub(One, FDivInt(FMul(r2, acc), (2 * lo - 1 + off) * (2 * lo + off)))
    ELSE Horner(r2, lo, ((lo + hi + 1) \div 2) - 1,
                Horner(r2, (lo + hi + 1) \div 2, hi, acc, off), off)

\* sin r from the series h of sin r / r, cos r from its own series h
Kernel(r, odd, h) == IF IsNaN(h) THEN NaN ELSE IF odd = 1 THEN h ELSE FMul(r, h)

\* sin (r + n * pi/2) for |r| <= pi/4
Turned(r, n) ==
    IF IsNaN(r) THEN NaN
    ELSE Negate(Kernel(r, n % 2, Horner(FMul(r, r), 1, 8, One, 1 - (n % 2))),
                n % 4 >= 2)

Quadrant(a) == Nearest(a, TWO_OVER_PI)

\* sin (a + k * pi/2) for a finite a in the q-th quadrant
SinShifted(a, q, k) == Turned(Reduce(a, q, PIO2_1, PIO2_2), q + k)

FSin(a) == IF a.k # "num" THEN NaN ELSE SinShifted(a, Quadrant(a), 0)

FCos(a) == IF a.k # "num" THEN NaN ELSE SinShifted(a, Quadrant(a), 1)

\* sin / cos of r + q * pi/2
Ratio(r, q) == IF IsNaN(r) THEN NaN ELSE FDiv(Turned(r, q), Turned(r, q + 1))

TanQuadrant(a, q) == Ratio(Reduce(a, q, PIO2_1, PIO2_2), q)

FTan(a) == IF a.k # "num" THEN NaN ELSE TanQuadrant(a, Quadrant(a))

\* 1 - u2/3 + u2^2/5 - ...: acc is the sum of the terms after the hi-th
RECURSIVE AtanSeries(_, _, _, _)
AtanSeries(u2, lo, hi, acc) ==
    IF IsNaN(acc) THEN NaN
    ELSE IF lo = hi THEN FSub(FDivInt(One, 2 * lo + 1), FMul(u2, acc))
    ELSE AtanSeries(u2, lo, ((lo + hi + 1) \div 2) - 1,
                    AtanSeries(u2, (lo + hi + 1) \div 2, hi, acc))

\* tan (x/2) from t = tan x
HalfAngle(t) ==
    IF IsNaN(t) THEN NaN
    ELSE FDiv(t, FAdd(One, FSqrt(FAdd(One, FMul(t, t)))))

\* 4 * arctan u by the series
AtanQuarter(u) ==
    IF IsNaN(u) THEN NaN
    ELSE FMulInt(FMul(u, AtanSeries(FMul(u, u), 0, 9, FDivInt(One, 21))), 4)

\* arctan t for 0 <= t <= 1
AtanUnit(t) == AtanQuarter(HalfAngle(HalfAngle(t)))

\* the angle in the first quadrant from arctan of the smaller ratio
Octant(au, steep) == IF IsNaN(au) THEN NaN ELSE IF steep THEN FSub(HALFPI, au) ELSE au

\* the angle in the upper half plane for an abscissa of sign xs
UpperHalf(b, xs) == IF IsNaN(b) THEN NaN ELSE IF xs = 1 THEN b ELSE FSub(pi, b)

\* arctan2 of finite nonzero y, x; steep is |y| > |x|
Atan2Num(y, x, steep) ==
    Negate(UpperHalf(Octant(AtanUnit(FDiv(FAbs(IF steep THEN x ELSE y),
                                          FAbs(IF steep THEN y ELSE x))),
                            steep),
                     x.s),
           y.s = -1)

FAtan2(y, x) ==
    CASE IsNaN(y) \/ IsNaN(x) -> NaN
      [] IsInf(y) -> Negate(IF ~IsInf(x) THEN HALFPI
                            ELSE IF x.s = 1 THEN FHalf(HALFPI)
                            ELSE FMulInt(FHalf(HALFPI), 3),
                            y.s = -1)
      [] IsInf(x) -> Negate(IF x.s = 1 THEN Zero ELSE pi, y.s = -1)
      [] IsZero(y) -> (IF x.s = 1 THEN Zero ELSE pi)
      [] IsZero(x) -> (IF y.s = 1 THEN HALFPI ELSE FNeg(HALFPI))
      [] OTHER -> Atan2Num(y, x, ~FLe(FAbs(y), FAbs(x)))

\* 1 + z2/3 + z2^2/5 + ...: acc is the sum of the terms after the hi-th
RECURSIVE LnSeries(_, _, _, _)
LnSeries(z2, lo, hi, acc) ==
    IF IsNaN(acc) THEN NaN
    ELSE IF lo = hi THEN FAdd(FDivInt(One, 2 * lo + 1), FMul(z2, acc))
    ELSE LnSeries(z2, lo, ((lo + hi + 1) \div 2) - 1,
                  LnSeries(z2, (lo + hi + 1) \div 2, hi, acc))

\* k * ln 2 + 2 artanh z
LnSum(k, z) ==
    IF IsNaN(z) THEN NaN
    ELSE FAdd(FMul(FromInt(k), LN2),
              FMulInt(FMul(z, LnSeries(FMul(z, z), 0, 8, FDivInt(One, 19))), 2))

\* ln (f * 2^k) for f in [1/sqrt 2, sqrt 2)
LnScaled(f, k) == LnSum(k, FDiv(FSub(f, One), FAdd(f, One)))

\* ln a for a finite a > 0; big is 1 when a's significand is sqrt 2 or more
LnNum(a, big) == LnScaled(Num(-41 - big, a.h, a.m, a.l), a.e + 41 + big)

\* the natural logarithm of a finite a > 0
FLn(a) == LnNum(a, IF GeMag(a.h, a.m, a.l, SQRT2.h, SQRT2.m, SQRT2.l) THEN 1 ELSE 0)

\* 1 + r/1 (1 + r/2 (1 + ... )): acc is the bracket after the hi-th
RECURSIVE ExpSeries(_, _, _, _)
ExpSeries(r, lo, hi, acc) ==
    IF IsNaN(acc) THEN NaN
    ELSE IF lo = hi THEN FAdd(One, FDivInt(FMul(r, acc), lo))
    ELSE ExpSeries(r, lo, ((lo + hi + 1) \div 2) - 1,
                   ExpSeries(r, (lo + hi + 1) \div 2, hi, acc))

\* v * 2^q
Scale(v, q) == Pack(1, v.e + q, v.h, v.m, v.l)

\* e^y for y nearest to q * ln 2
ExpNum(y, q) == Scale(ExpSeries(Reduce(y, q, LN2_1, LN2_2), 1, 13, One), q)

\* e^y for a finite y
FExp(y) ==
    CASE y.k = "nan" -> NaN
      [] FLt(FromInt(710), y) -> Inf(1)
      [] FLt(y, FromInt(-746)) -> Zero
      [] OTHER -> ExpNum(y, Nearest(y, INV_LN2))

\* a ** b for a float exponent b
PowExp(b, ln) == IF ln.k = "nan" THEN NaN ELSE FExp(FMul(b, ln))

FPow(a, b) ==
    CASE IsZero(b) \/ a = One -> One
      [] IsNaN(a) \/ IsNaN(b) -> NaN
      [] IsInf(b) -> (IF FAbs(a) = One THEN One
                      ELSE IF FLt(One, FAbs(a)) = (b.s = 1) THEN Inf(1) ELSE Zero)
      [] IsInf(a) -> (IF a.s = -1 THEN NaN ELSE IF b.s = 1 THEN Inf(1) ELSE Zero)
      [] IsZero(a) -> (IF b.s = 1 THEN Zero ELSE Inf(1))
      [] a.s = -1 -> NaN
      [] OTHER -> PowExp(b, FLn(a))

\* a ** n for an integer literal n >= 0: acc is a ** (n - left)
RECURSIVE PowLoop(_, _, _)
PowLoop(a, left, acc) ==
    IF left = 0 \/ IsNaN(acc) THEN acc ELSE PowLoop(a, left - 1, FMul(acc, a))

FPowInt(a, n) == IF n = 0 THEN One ELSE PowLoop(a, n - 1, a)

\* the decimal literal i + num/den of the source
Dec(i, num, den) == FAdd(FromInt(i), FDiv(FromInt(num), FromInt(den)))

(***************************************************************************)
(* numpy ndarrays: a shape (<<>> a scalar, <<N>>, <<R, C>>) and the data   *)
(* in row-major order.  An exception is the value ValueError.              *)
(***************************************************************************)
ValueError == [exc |-> "ValueError"]
IsExc(A) == "exc" \in DOMAIN A
Scalar(f) == [shape |-> <<>>, data |-> <<f>>]
Vec(fs) == [shape |-> <<Len(fs)>>, data |-> fs]
Lit(n) == Scalar(FromInt(n))
Val(A) == A.data[1]

Rows(A) == IF Len(A.shape) = 2 THEN A.shape[1] ELSE 1
Cols(A) == IF Len(A.shape) = 0 THEN 1 ELSE A.shape[Len(A.shape)]
Max(i, j) == IF i >= j THEN i ELSE j

\* numpy's broadcasting rule: trailing dimensions are equal, or one of them is 1
Compatible(A, C) ==
    /\ Rows(A) = Rows(C) \/ Rows(A) = 1 \/ Rows(C) = 1
    /\ Cols(A) = Cols(C) \/ Cols(A) = 1 \/ Cols(C) = 1

BroadcastShape(A, C) ==
    LET nd == Max(Len(A.shape), Len(C.shape))
        R == IF Rows(A) = 1 THEN Rows(C) ELSE Rows(A)
        K == IF Cols(A) = 1 THEN Cols(C) ELSE Cols(A)
    IN  IF nd = 0 THEN <<>> ELSE IF nd = 1 THEN <<K>> ELSE <<R, K>>

\* the element of A that broadcasting puts at row r, column c (from 0)
At(A, r, c) ==
    A.data[(IF Rows(A) = 1 THEN 0 ELSE r) * Cols(A) + (IF Cols(A) = 1 THEN 0 ELSE c) + 1]

\* a binary ufunc
Lift2(Op(_, _), A, C) ==
    CASE "exc" \in DOMAIN A -> A
      [] "exc" \in DOMAIN C -> C
      [] ~Compatible(A, C) -> ValueError
      [] OTHER ->
           LET R == IF Rows(A) = 1 THEN Rows(C) ELSE Rows(A)
               K == IF Cols(A) = 1 THEN Cols(C) ELSE Cols(A)
           IN  [shape |-> BroadcastShape(A, C),
                data |-> [i \in 1..(R * K) |->
                            Op(At(A, (i - 1) \div K, (i - 1) % K),
                               At(C, (i - 1) \div K, (i - 1) % K))] \o <<>>]

\* a unary ufunc
Lift1(Op(_), A) ==
    IF IsExc(A) THEN A
    ELSE [shape |-> A.shape, data |-> [i \in 1..Len(A.data) |-> Op(A.data[i])] \o <<>>]

add(A, C) == Lift2(FAdd, A, C)
sub(A, C) == Lift2(FSub, A, C)
mul(A, C) == Lift2(FMul, A, C)
\* a division that raises when a divisor is zero, as Python's own does
DivRaising(A, C) ==
    IF ~IsExc(C) /\ \E i \in 1..Len(C.data) : IsZero(C.data[i]) THEN ValueError
    ELSE Lift2(FDiv, A, C)

div(A, C) == Lift2(FDiv, A, C)
power(A, C) == Lift2(FPow, A, C)
neg(A) == Lift1(FNeg, A)
sin(A) == Lift1(FSin, A)
cos(A) == Lift1(FCos, A)
tan(A) == Lift1(FTan, A)
sqrt(A) == Lift1(FSqrt, A)
arctan2(A, C) == Lift2(FAtan2, A, C)
\* A ** n for an integer literal n
ipow(A, n) == IF IsExc(A) THEN A
              ELSE [shape |-> A.shape,
                    data |-> [i \in 1..Len(A.data) |-> FPowInt(A.data[i], n)] \o <<>>]

\* numpy.array((x, y, z)) of three arrays: a ragged triple is refused
array3(x, y, z) ==
    IF IsExc(x) THEN x ELSE IF IsExc(y) THEN y ELSE IF IsExc(z) THEN z
    ELSE IF x.shape # y.shape \/ y.shape # z.shape THEN ValueError
    ELSE [shape |-> <<3>> \o x.shape, data |-> x.data \o y.data \o z.data]

\* X.reshape((3, -1))
reshape3(X) ==
    IF IsExc(X) THEN X
    ELSE IF Len(X.data) % 3 # 0 THEN ValueError
    ELSE [shape |-> <<3, Len(X.data) \div 3>>, data |-> X.data]

\* X[i] (i from 0): a row of a two-dimensional X, an element of a vector
Row(X, i) ==
    IF IsExc(X) THEN X
    ELSE IF Len(X.shape) = 1 THEN Scalar(X.data[i + 1])
    ELSE [shape |-> <<X.shape[2]>>,
          data |-> SubSeq(X.data, i * X.shape[2] + 1, (i + 1) * X.shape[2])]

\* a product that takes the first point of X for every point
FirstPointTerm(M, X, r, c, n) ==
    FMul(M.data[r * M.shape[2] + n], X.data[(n - 1) * X.shape[2] + 1])

\* M[r, n - 1] * X[n - 1, c]
DotTerm(M, X, r, c, n) ==
    FMul(M.data[r * M.shape[2] + n], X.data[(n - 1) * X.shape[2] + c + 1])

\* sum over k < n of M[r, k] * X[k, c], added left to right
RECURSIVE DotSum(_, _, _, _, _)
DotSum(M, X, r, c, n) ==
    IF n = 1 THEN DotTerm(M, X, r, c, n)
    ELSE FAdd(DotSum(M, X, r, c, n - 1), DotTerm(M, X, r, c, n))

\* M.dot(X) of two-dimensional arrays
dot(M, X) ==
    IF IsExc(X) THEN X
    ELSE IF M.shape[2] # X.shape[1] THEN ValueError
    ELSE [shape |-> <<M.shape[1], X.shape[2]>>,
          data |-> [i \in 1..(M.shape[1] * X.shape[2]) |->
                      DotSum(M, X, (i - 1) \div X.shape[2], (i - 1) % X.shape[2],
                             M.shape[2])] \o <<>>]

(***************************************************************************)
(* flood_tool/geo.py                                                       *)
(*                                                                         *)
(* A function body is a chain of operators, one for a group of its         *)
(* statements: each takes the record v of the local variables assigned so  *)
(* far and returns it with the variables its statements assign.            *)
(***************************************************************************)
\* the module's globals, the caller's position and its last call, the Tool
VARIABLES osgb36, wgs84, WGS84toOSGB36transform, pc, call, tool, script
vars == <<osgb36, wgs84, WGS84toOSGB36transform, pc, call, tool, script>>

\* a statement that assigned one of the local variables v raised
Raised(v) == \E f \in DOMAIN v : IsExc(v[f])

Ellipsoid(a, b, F_0) ==
    [a |-> a, b |-> b,
     n |-> FDiv(FSub(a, b), FAdd(a, b)),
     e2 |-> FDiv(FSub(FPowInt(a, 2), FPowInt(b, 2)), FPowInt(a, 2)),
     F_0 |-> F_0, H |-> Zero]

Datum(a, b, F_0, phi_0, lam_0, E_0, N_0, H) ==
    [Ellipsoid(a, b, F_0) EXCEPT !.H = H] @@
    [phi_0 |-> phi_0, lam_0 |-> lam_0, E_0 |-> E_0, N_0 |-> N_0]

rad(deg, min, sec) ==
    mul(add(add(deg, div(min, Lit(60))), div(sec, Lit(3600))),
        div(Scalar(pi), Lit(180)))

\* a conversion to degrees that returns the radians
DegSkipped(r) == r

deg(r) == mul(r, div(Lit(180), Scalar(pi)))

osgb36_0 ==
    Datum(Dec(6377563, 396, 1000), Dec(6356256, 910, 1000),
          FDiv(FAdd(FMul(FromInt(99960), FromInt(100000)), FromInt(12717)),
               FMul(FromInt(100000), FromInt(100000))),
          Val(rad(Lit(49), Lit(0), Lit(0))), Val(rad(Lit(-2), Lit(0), Lit(0))),
          FromInt(400000), FromInt(-100000), Dec(24, 7, 10))

wgs84_0 == Ellipsoid(FromInt(6378137), Dec(6356752, 3142, 10000), Dec(0, 9996, 10000))

\* if not radians: latitude = rad(latitude); longitude = rad(longitude)
InRadians(v, radians) ==
    IF radians THEN v
    ELSE [latitude |-> rad(v.latitude, Lit(0), Lit(0)),
          longitude |-> rad(v.longitude, Lit(0), Lit(0))]

\* the sine, cosine and tangent of the latitude, which the statements that
\* follow take again and again
Trig(v) ==
    v @@ [sinlat |-> sin(v.latitude), coslat |-> cos(v.latitude),
          tanlat |-> tan(v.latitude)]

\* 1 - datum.e2*sin(latitude)**2
Flattening(v, datum) == sub(Lit(1), mul(Scalar(datum.e2), ipow(v.sinlat, 2)))

\* nu = datum.a*datum.F_0/sqrt(1-datum.e2*sin(latitude)**2)
PrimeVertical(v, datum) ==
    div(mul(Scalar(datum.a), Scalar(datum.F_0)), sqrt(Flattening(v, datum)))

Curvature(v, datum) == v @@ [nu |-> PrimeVertical(v, datum)]

\* the returned array((x, y, z))
Cartesian(v, datum) ==
    array3(mul(mul(add(v.nu, Scalar(datum.H)), v.coslat), cos(v.longitude)),
           mul(mul(add(v.nu, Scalar(datum.H)), v.coslat), sin(v.longitude)),
           mul(add(mul(sub(Lit(1), Scalar(datum.e2)), v.nu), Scalar(datum.H)), v.sinlat))

lat_long_to_xyz(latitude, longitude, radians, datum) ==
    Cartesian(Curvature(Trig(InRadians([latitude |-> latitude, longitude |-> longitude],
                                       radians)),
                        datum),
              datum)

NewtonIterations == 6

\* nu and dnu of a pass of the loop
Slope(v, datum) ==
    v @@ [nu |-> PrimeVertical(v, datum),
          dnu |-> div(mul(mul(mul(neg(Scalar(datum.a)), Scalar(datum.F_0)), v.coslat),
                          v.sinlat),
                      power(Flattening(v, datum), Scalar(Dec(1, 5, 10))))]

\* f0 and f1 of a pass of the loop
Residual(v, datum) ==
    v @@ [f0 |-> sub(div(add(v.z, mul(mul(Scalar(datum.e2), v.nu), v.sinlat)), v.p),
                     v.tanlat),
          f1 |-> sub(div(mul(Scalar(datum.e2),
                             add(power(v.nu, v.coslat), mul(v.dnu, v.sinlat))),
                         v.p),
                     div(Lit(1), ipow(v.coslat, 2)))]

\* latitude -= f0/f1
Corrected(v) == IF Raised(v) THEN ValueError ELSE sub(v.latitude, div(v.f0, v.f1))

\* one pass of the loop body
NewtonStep(latitude, z, p, datum) ==
    Corrected(Residual(Slope(Trig([latitude |-> latitude, z |-> z, p |-> p]), datum),
                       datum))

\* a loop that makes one pass and returns
OnePass(i, latitude, z, p, datum) ==
    [latitude |-> NewtonStep(latitude, z, p, datum), steps |-> i + 1]

\* for _ in range(6): the latitude after the loop and the passes made
RECURSIVE NewtonLoop(_, _, _, _, _)
NewtonLoop(i, latitude, z, p, datum) ==
    IF i >= NewtonIterations \/ IsExc(latitude) THEN [latitude |-> latitude, steps |-> i]
    ELSE NewtonLoop(i + 1, NewtonStep(latitude, z, p, datum), z, p, datum)

\* p = sqrt(x**2+y**2) and longitude = arctan2(y, x)
Polar(v) ==
    v @@ [p |-> sqrt(add(ipow(v.x, 2), ipow(v.y, 2))), longitude |-> arctan2(v.y, v.x)]

\* latitude = arctan2(z,p*(1-datum.e2))
FirstGuess(v, datum) ==
    v @@ [latitude |-> arctan2(v.z, mul(v.p, sub(Lit(1), Scalar(datum.e2))))]

Iterated(v, datum) ==
    v @@ [loop |-> IF Raised(v) THEN [latitude |-> ValueError, steps |-> 0]
                   ELSE NewtonLoop(0, v.latitude, v.z, v.p, datum)]

\* the name latitude bound to the caller's array z
CallersZ == "z"

\* the array that the name latitude is bound to when the loop starts is the
\* new array arctan2 returns, none of the caller's "x", "y", "z"
LatitudeArray == "new"

\* a caller's array as the call leaves it: latitude -= f0/f1 writes in
\* place into the array that latitude names
Left(name, v) ==
    IF LatitudeArray = name /\ ~IsExc(v.loop.latitude) THEN v.loop.latitude ELSE v[name]

\* the returned (latitude, longitude), the passes of the loop, and the
\* caller's arrays as the call leaves them
InDegrees(v, radians) ==
    [latitude |-> IF radians THEN v.loop.latitude ELSE deg(v.loop.latitude),
     longitude |-> IF IsExc(v.loop.latitude) THEN ValueError
                   ELSE IF radians THEN v.longitude ELSE deg(v.longitude),
     steps |-> v.loop.steps,
     x |-> Left("x", v), y |-> Left("y", v), z |-> Left("z", v)]

xyz_to_lat_long(x, y, z, radians, datum) ==
    InDegrees(Iterated(FirstGuess(Polar([x |-> x, y |-> y, z |-> z]), datum), datum),
              radians)

\* a transform whose matrix has the rotations about the axes reversed
ReversedRotations(s, rx, ry, rz, T) ==
    [T |-> [shape |-> <<3, 1>>, data |-> T.data],
     M |-> [shape |-> <<3, 3>>,
            data |-> <<FAdd(One, s), rz, FNeg(ry),
                       FNeg(rz), FAdd(One, s), rx,
                       ry, FNeg(rx), FAdd(One, s)>>]]

HelmertTransform(s, rx, ry, rz, T) ==
    [T |-> [shape |-> <<3, 1>>, data |-> T.data],
     M |-> [shape |-> <<3, 3>>,
            data |-> <<FAdd(One, s), FNeg(rz), ry,
                       rz, FAdd(One, s), FNeg(rx),
                       FNeg(ry), rx, FAdd(One, s)>>]]

\* HelmertTransform.__call__
HelmertCall(self, X) == add(self.T, dot(self.M, reshape3(X)))

\* the arguments of the constructor call that makes WGS84toOSGB36transform
WGS84toOSGB36parameters ==
    [s |-> FDiv(FromInt(204894), FMul(FromInt(100000), FromInt(100000))),
     rx |-> FNeg(Val(rad(Lit(0), Lit(0), Scalar(Dec(0, 1502, 10000))))),
     ry |-> FNeg(Val(rad(Lit(0), Lit(0), Scalar(Dec(0, 2470, 10000))))),
     rz |-> FNeg(Val(rad(Lit(0), Lit(0), Scalar(Dec(0, 8421, 10000))))),
     T |-> Vec(<<FNeg(Dec(446, 448, 1000)), Dec(125, 157, 1000),
                 FNeg(Dec(542, 60, 1000))>>)]

Construct(q) == HelmertTransform(q.s, q.rx, q.ry, q.rz, q.T)

WGS84toOSGB36transform_0 == Construct(WGS84toOSGB36parameters)

\* xyz = WGS84toOSGB36transform(xyz): xyz2 is the new value of xyz
Transformed(v) == v @@ [xyz2 |-> HelmertCall(WGS84toOSGB36transform, v.xyz)]

\* lat, lon = xyz_to_lat_long(xyz[0], xyz[1], xyz[2], radians)
Inverted(v, radians) ==
    v @@ [r |-> IF Raised(v) THEN [latitude |-> ValueError, longitude |-> ValueError,
                                   steps |-> 0]
                ELSE xyz_to_lat_long(Row(v.xyz2, 0), Row(v.xyz2, 1), Row(v.xyz2, 2),
                                     radians, osgb36)]

\* the returned (lat, lon) with the locals of the call
LatLon(v) ==
    [lat |-> v.r.latitude, lon |-> v.r.longitude, steps |-> v.r.steps,
     xyz |-> v.xyz, xyz2 |-> v.xyz2]

WGS84toOSGB36(latitude, longitude, radians) ==
    LatLon(Inverted(Transformed([xyz |-> lat_long_to_xyz(latitude, longitude, radians,
                                                         osgb36)]),
                    radians))

\* a literal quotient i/j of the source
Q(i, j) == Scalar(FDiv(FromInt(i), FromInt(j)))

\* latitude, longitude = WGS84toOSGB36(latitude, longitude, radians=True)
Shifted(w) == [latitude |-> w.lat, longitude |-> w.lon]

\* nu and rho
Radii(v) ==
    v @@ [nu |-> PrimeVertical(v, osgb36),
          rho |-> div(mul(mul(Scalar(osgb36.a), Scalar(osgb36.F_0)),
                          sub(Lit(1), Scalar(osgb36.e2))),
                      power(Flattening(v, osgb36), Q(3, 2)))]

\* the arc of the meridian from the true origin to the latitude
Arc(v, dm, dp) ==
    mul(mul(Scalar(osgb36.b), Scalar(osgb36.F_0)),
        sub(add(sub(mul(add(add(add(Lit(1), Scalar(osgb36.n)),
                                mul(Q(5, 4), Scalar(FPowInt(osgb36.n, 2)))),
                            mul(Q(5, 4), Scalar(FPowInt(osgb36.n, 3)))),
                        dm),
                    mul(mul(add(add(mul(Lit(3), Scalar(osgb36.n)),
                                    mul(Lit(3), Scalar(FPowInt(osgb36.n, 2)))),
                                mul(Q(21, 8), Scalar(FPowInt(osgb36.n, 3)))),
                            sin(dm)),
                        cos(dp))),
                mul(mul(add(mul(Q(15, 8), Scalar(FPowInt(osgb36.n, 2))),
                            mul(Q(15, 8), Scalar(FPowInt(osgb36.n, 3)))),
                        sin(mul(Lit(2), dm))),
                    cos(mul(Lit(2), dp)))),
            mul(mul(mul(Q(35, 24), Scalar(FPowInt(osgb36.n, 3))), sin(mul(Lit(3), dm))),
                cos(mul(Lit(3), dp)))))

\* the longitude taken from the central meridian with the wrong sign
MeridianAdded(v) ==
    v @@ [heta |-> sqrt(sub(div(v.nu, v.rho), Lit(1))),
          M |-> Arc(v, sub(v.latitude, Scalar(osgb36.phi_0)),
                    add(v.latitude, Scalar(osgb36.phi_0))),
          t2 |-> ipow(v.tanlat, 2), t4 |-> ipow(v.tanlat, 4),
          dl |-> add(v.longitude, Scalar(osgb36.lam_0))]

\* heta and M, with tan(latitude)**2 and tan(latitude)**4
Meridian(v) ==
    v @@ [heta |-> sqrt(sub(div(v.nu, v.rho), Lit(1))),
          M |-> Arc(v, sub(v.latitude, Scalar(osgb36.phi_0)),
                    add(v.latitude, Scalar(osgb36.phi_0))),
          t2 |-> ipow(v.tanlat, 2), t4 |-> ipow(v.tanlat, 4),
          dl |-> sub(v.longitude, Scalar(osgb36.lam_0))]

\* I, II, III, IIIA, IV, V and VI, with heta**2
Terms(v, h2) ==
    v @@ [I |-> add(v.M, Scalar(osgb36.N_0)),
          II |-> mul(mul(div(v.nu, Lit(2)), v.sinlat), v.coslat),
          III |-> mul(mul(mul(div(v.nu, Lit(24)), v.sinlat), ipow(v.coslat, 3)),
                      add(sub(Lit(5), v.t2), mul(Lit(9), h2))),
          IIIA |-> mul(mul(mul(div(v.nu, Lit(720)), v.sinlat), ipow(v.coslat, 5)),
                       add(sub(Lit(61), mul(Lit(58), v.t2)), v.t4)),
          IV |-> mul(v.nu, v.coslat),
          V |-> mul(mul(div(v.nu, Lit(6)), ipow(v.coslat, 3)),
                    sub(div(v.nu, v.rho), v.t2)),
          VI |-> mul(mul(div(v.nu, Lit(120)), ipow(v.coslat, 5)),
                     sub(add(add(sub(Lit(5), mul(Lit(18), v.t2)), v.t4),
                             mul(Lit(14), h2)),
                         mul(mul(Lit(58), v.t2), h2)))]

Series(v) == Terms(v, ipow(v.heta, 2))

\* the returned (easting, northing) and the datum-shifted latitude and longitude
Grid(v) ==
    [easting |-> add(add(add(Scalar(osgb36.E_0), mul(v.IV, v.dl)),
                         mul(v.V, ipow(v.dl, 3))),
                     mul(v.VI, ipow(v.dl, 5))),
     northing |-> add(add(add(v.I, mul(v.II, ipow(v.dl, 2))),
                          mul(v.III, ipow(v.dl, 4))),
                      mul(v.IIIA, ipow(v.dl, 6))),
     lat |-> v.latitude, lon |-> v.longitude]

\* the Transverse Mercator series on the OSGB36 latitude and longitude
Projection(w) == Grid(Series(Meridian(Radii(Trig(Shifted(w))))))

get_easting_northing_from_lat_long(latitude, longitude, radians) ==
    Projection(WGS84toOSGB36(
        IF radians THEN latitude ELSE rad(latitude, Lit(0), Lit(0)),
        IF radians THEN longitude ELSE rad(longitude, Lit(0), Lit(0)),
        TRUE))

(***************************************************************************)
(* flood_tool/tool.py.  A table is the sequence of its rows, a string      *)
(* column entry the sequence of its characters, a float column entry a     *)
(* number of the format above.  The three .csv files are resources that    *)
(* the sources do not hold: sample files stand for them.                   *)
(***************************************************************************)
\* str.replace(" ", "")
StripSpaces(x) == SelectSeq(x, LAMBDA c : c # " ")

\* x[0:3] + " " + x[3:6] if len(x) == 6 else x
Spaced6(x) == IF Len(x) = 6 THEN SubSeq(x, 1, 3) \o <<" ">> \o SubSeq(x, 4, 6) ELSE x

\* x[0:2] + "  " + x[4:6] if len(x) == 5 else x
Spaced5(x) == IF Len(x) = 5 THEN SubSeq(x, 1, 2) \o <<" ", " ">> \o SubSeq(x, 5, 5) ELSE x

\* a cell after fillna(0)
FillNa(f) == IF IsNaN(f) THEN Zero ELSE f

YO1_7HH == <<"Y", "O", "1", " ", "7", "H", "H">>
SW1A_1AA == <<"S", "W", "1", "A", " ", "1", "A", "A">>
SW1A1AA == <<"S", "W", "1", "A", "1", "A", "A">>
M1_1AA == <<"M", "1", " ", "1", "A", "A">>
ZZ9_9ZZ == <<"Z", "Z", "9", " ", "9", "Z", "Z">>

\* postcodes.csv: Postcode, Latitude, Longitude (WGS84, degrees)
PostcodeFile ==
    <<[Postcode |-> YO1_7HH, Latitude |-> FromInt(52), Longitude |-> FromInt(-1)],
      [Postcode |-> SW1A_1AA, Latitude |-> FromInt(51), Longitude |-> FromInt(0)],
      [Postcode |-> M1_1AA, Latitude |-> FromInt(54), Longitude |-> FromInt(-3)]>>

\* property_value.csv: Postcode, Total Value; M1 1AA has no row
ValuesFile ==
    <<[Postcode |-> YO1_7HH, TotalValue |-> FromInt(250000)],
      [Postcode |-> SW1A_1AA, TotalValue |-> FromInt(1000000)]>>

\* flood_probability.csv: X, Y, radius, prob_4band.  The first four circles
\* lie around the point (0, 0), a circle of each band lies around the grid
\* position of a row of postcodes.csv
RiskFile ==
    <<[X |-> 0, Y |-> 0, radius |-> 5, prob_4band |-> "Low"],
      [X |-> 6, Y |-> 0, radius |-> 3, prob_4band |-> "High"],
      [X |-> 0, Y |-> 10, radius |-> 5, prob_4band |-> "Very Low"],
      [X |-> 0, Y |-> 8, radius |-> 2, prob_4band |-> "Medium"],
      [X |-> 468800, Y |-> 234000, radius |-> 1000, prob_4band |-> "High"],
      [X |-> 468800, Y |-> 234000, radius |-> 5000, prob_4band |-> "Low"],
      [X |-> 540500, Y |-> 124300, radius |-> 1000, prob_4band |-> "Medium"],
      [X |-> 334600, Y |-> 456500, radius |-> 1000, prob_4band |-> "Very Low"]>>

\* a column of a table as an array
ColumnOf(rows, name) == Vec([i \in 1..Len(rows) |-> rows[i][name]] \o <<>>)

\* self.dff['prob_4band'].replace(['High', 'Medium', 'Low', 'Very Low'], [4, 3, 2, 1])
NumericalRisk(band) ==
    CASE band = "High" -> 4
      [] band = "Medium" -> 3
      [] band = "Low" -> 2
      [] band = "Very Low" -> 1
      [] OTHER -> band

\* the rows of dfc with the Postcode x
Valued(dfc, x) == SelectSeq(dfc, LAMBDA r : StripSpaces(r.Postcode) = x)

\* merge(how='left') and fillna(0) on the row i of dfp with its Easting and
\* Northing; then the two apply calls on the Postcode column
Merged(row, easting, northing, dfc) ==
    [Postcode |-> Spaced5(Spaced6(StripSpaces(row.Postcode))),
     Latitude |-> FillNa(row.Latitude), Longitude |-> FillNa(row.Longitude),
     Easting |-> FillNa(easting), Northing |-> FillNa(northing),
     TotalValue |-> IF Valued(dfc, StripSpaces(row.Postcode)) = <<>> THEN Zero
                    ELSE FillNa(Valued(dfc, StripSpaces(row.Postcode))[1].TotalValue)]

\* the object that __init__ leaves, en being what the call of
\* get_easting_northing_from_lat_long returned
Loaded(dfp, dff, dfc, en) ==
    [dfp |-> [i \in 1..Len(dfp) |->
                Merged(dfp[i], en.easting.data[i], en.northing.data[i], dfc)] \o <<>>,
     dff |-> [i \in 1..Len(dff) |->
                dff[i] @@ [NumericalRisk |-> NumericalRisk(dff[i].prob_4band)]] \o <<>>,
     dfc |-> [i \in 1..Len(dfc) |->
                [dfc[i] EXCEPT !.Postcode = StripSpaces(dfc[i].Postcode)]] \o <<>>]

\* easting, northing = geo.get_easting_northing_from_lat_long(lat, lon)
OfShifted(w) == get_easting_northing_from_lat_long(w.lat, w.lon, FALSE)

\* Tool.__init__
Tool(dfp, dff, dfc) ==
    Loaded(dfp, dff, dfc,
           OfShifted(WGS84toOSGB36(ColumnOf(dfp, "Latitude"), ColumnOf(dfp, "Longitude"),
                                   FALSE)))

\* the rows of self.dfp with the Postcode x
Found(self, x) == SelectSeq(self.dfp, LAMBDA r : r.Postcode = x)

\* Tool.get_lat_long: a row (latitude, longitude) for each postcode
get_lat_long(self, postcodes) ==
    [i \in 1..Len(postcodes) |->
       IF Found(self, postcodes[i]) = <<>> THEN <<NaN, NaN>>
       ELSE <<Found(self, postcodes[i])[1].Latitude,
              Found(self, postcodes[i])[1].Longitude>>] \o <<>>

\* distance.cdist of the point (x, y) and the centre of a circle
Distance(x, y, circle) ==
    FSqrt(FAdd(FPowInt(FSub(x, FromInt(circle.X)), 2),
               FPowInt(FSub(y, FromInt(circle.Y)), 2)))

\* the circles without their boundary: dist[0] < self.dff['radius']
CirclesOpen(self, x, y) ==
    [j \in 1..Len(self.dff) |->
       IF FLt(Distance(x, y, self.dff[j]), FromInt(self.dff[j].radius))
       THEN self.dff[j].NumericalRisk ELSE 0] \o <<>>

\* np.where(dist[0] <= self.dff['radius'], self.dff['Numerical Risk'], 0)
Circles(self, x, y) ==
    [j \in 1..Len(self.dff) |->
       IF FLe(Distance(x, y, self.dff[j]), FromInt(self.dff[j].radius))
       THEN self.dff[j].NumericalRisk ELSE 0] \o <<>>

\* np.max
RECURSIVE MaxOf(_, _)
MaxOf(xs, n) == IF n = 1 THEN xs[1] ELSE Max(MaxOf(xs, n - 1), xs[n])

\* probs = {4:'High', 3:'Medium', 2:'Low', 1:'Very Low', 0:'Zero'}
BandName(risk) ==
    CASE risk = 4 -> "High"
      [] risk = 3 -> "Medium"
      [] risk = 2 -> "Low"
      [] risk = 1 -> "Very Low"
      [] risk = 0 -> "Zero"

\* get_probs of a row
BandOf(circles) == BandName(MaxOf(circles, Len(circles)))

\* Tool.get_easting_northing_flood_probability
get_easting_northing_flood_probability(self, easting, northing) ==
    [i \in 1..Len(easting.data) |->
       BandOf(Circles(self, easting.data[i], northing.data[i]))] \o <<>>

\* Tool.get_flood_cost
get_flood_cost(self, postcodes) ==
    Vec([i \in 1..Len(postcodes) |->
           IF Found(self, postcodes[i]) = <<>> THEN FillNa(NaN)
           ELSE FillNa(Found(self, postcodes[i])[1].TotalValue)] \o <<>>)

\* probs = {'Very Low':1/1000, 'Low':1/100, 'Medium':1/50, 'High':1/10, 'Zero':0}
Probability(band) ==
    CASE band = "Very Low" -> FDiv(FromInt(1), FromInt(1000))
      [] band = "Low" -> FDiv(FromInt(1), FromInt(100))
      [] band = "Medium" -> FDiv(FromInt(1), FromInt(50))
      [] band = "High" -> FDiv(FromInt(1), FromInt(10))
      [] band = "Zero" -> Zero
      [] OTHER -> NaN

\* new_one['probs_values'] * self.get_flood_cost(postcodes) * 0.05
Risked(bands, cost) ==
    Vec([i \in 1..Len(bands) |->
           FMul(FMul(Probability(bands[i]), cost.data[i]), Dec(0, 5, 100))] \o <<>>)

\* Tool.get_annual_flood_risk
get_annual_flood_risk(self, postcodes, probability_bands) ==
    Risked(probability_bands, get_flood_cost(self, postcodes))

(***************************************************************************)
(* step3_api.py.  The script reads the postcodes, builds its Tool, and     *)
(* makes three passes; the reading of the rainfall station of a pass is    *)
(* what the flood-monitoring service answers.                              *)
(***************************************************************************)
\* api_postcodes.csv: the strings of its last row
ApiFiles ==
    <<<<YO1_7HH, SW1A_1AA, M1_1AA>>, <<YO1_7HH, SW1A1AA, ZZ9_9ZZ>>>>

\* station_data.get('items')[0].get('latestReading') == None
NoReading == [k |-> "None"]

\* a Python string s; a float is a number of the format above
Str(s) == [str |-> s]

\* v == s for a Python value v and the string literal s: a float and a
\* string are never equal
PyEq(v, s) == "str" \in DOMAIN v /\ v.str = s

\* lines 73 to 98: what the pass prints for the value risk and the reading
Decision(risk, station_value) ==
    CASE PyEq(risk, "Zero") -> "No Risk"
      [] PyEq(risk, "Very Low") ->
           (IF FLt(station_value, FromInt(3)) THEN "No Risk"
            ELSE IF FLt(FromInt(3), station_value) THEN "Yellow Warning, Medium Risk"
            ELSE "")
      [] PyEq(risk, "Low") ->
           (IF FLe(station_value, FromInt(2)) THEN "No Risk"
            ELSE IF FLt(FromInt(2), station_value) /\ FLt(station_value, FromInt(3))
            THEN "Yellow Warning, Medium Risk"
            ELSE IF FLe(FromInt(3), station_value) THEN "Yellow Waring, Medium Risk"
            ELSE "")
      [] PyEq(risk, "Medium") ->
           (IF FLt(station_value, FromInt(2)) THEN "No Risk"
            ELSE IF FLt(FromInt(2), station_value) /\ FLt(station_value, FromInt(3))
            THEN "Yellow Warning, Medium Risk"
            ELSE IF FLe(FromInt(3), station_value) THEN "Red Warning, High Risk"
            ELSE "")
      [] PyEq(risk, "High") ->
           (IF FLt(station_value, FromInt(2)) THEN "Yellow Warning, Medium Risk"
            ELSE IF FLe(FromInt(2), station_value) THEN "Red warning, High Risk"
            ELSE "")
      [] OTHER -> ""

\* E_N = np.array(geo.get_easting_northing_from_lat_long(lat_long[:, 0], lat_long[:,1]))
EastNorth(lat_long) ==
    get_easting_northing_from_lat_long(
        Vec([i \in 1..Len(lat_long) |-> lat_long[i][1]] \o <<>>),
        Vec([i \in 1..Len(lat_long) |-> lat_long[i][2]] \o <<>>), FALSE)

\* the script's variables after line 28
Located(postcodes, lat_long, en) ==
    [postcodes |-> postcodes, lat_long |-> lat_long,
     E_N |-> <<en.easting, en.northing>>, i |-> 0, printed |-> <<>>]

Started(postcodes, lat_long) ==
    Located(postcodes, lat_long, EastNorth(lat_long))

\* line 70
FloodRisk(self, s) ==
    get_annual_flood_risk(self, s.postcodes,
        get_easting_northing_flood_probability(self, s.E_N[1], s.E_N[2]))

\* the reading of the pass i and what the pass prints after the station's
\* line ("" is nothing)
Printed(self, s, station_value) ==
    [station_value |-> station_value,
     printed |-> IF station_value = NoReading THEN "has no value. Assume 0 rain."
                 ELSE Decision(FloodRisk(self, s).data[s.i + 1], station_value)]

None == [op |-> "none"]

InitGlobals ==
    /\ osgb36 = osgb36_0
    /\ wgs84 = wgs84_0
    /\ WGS84toOSGB36transform = WGS84toOSGB36transform_0

Init ==
    /\ InitGlobals
    /\ pc = "idle"
    /\ call = None
    /\ tool = None
    /\ script = None

(***************************************************************************)
(* The callers of flood_tool/geo.py.  An action is one call of a public    *)
(* function from the idle caller, with its arguments and what it returned  *)
(* kept in call; Return takes the caller back to idle.                     *)
(***************************************************************************)
\* the longest argument array of a batch call
MaxBatch == 2

\* sample positions (latitude, longitude) in whole degrees
Positions == <<<<52, -1>>, <<0, 0>>, <<90, 180>>, <<-90, -180>>, <<-45, 10>>>>

\* sample Cartesian points (x, y, z) in whole metres; the first and the third
\* lie on the polar axis
Points == <<<<0, 0, 6356752>>, <<3900000, -70000, 5000000>>, <<0, 0, 0>>,
            <<6378137, 0, 0>>>>

\* coordinate c of the n samples of S from the i-th on, as an array
Column(S, c, i, n) == Vec([k \in 1..n |-> FromInt(S[i + k - 1][c])] \o <<>>)

\* an argument array of latitudes (c = 1) or longitudes (c = 2), in degrees
\* or in radians
Angles(c, i, n, radians) ==
    IF radians THEN rad(Column(Positions, c, i, n), Lit(0), Lit(0))
    ELSE Column(Positions, c, i, n)

\* the lengths (n, m) of the latitude and the longitude array of a call that
\* starts at sample i: equal, or (from the first sample only) unequal
Lengths(i) ==
    {<<n, n>> : n \in 1..MaxBatch}
        \cup (IF i = 1 THEN {<<1, 2>>, <<2, 1>>, <<2, 3>>} ELSE {})

Fits(S, i, n, m) == i + n - 1 <= Len(S) /\ i + m - 1 <= Len(S)

DatumOf(name) == IF name = "osgb36" THEN osgb36 ELSE wgs84

Called(c) ==
    /\ pc = "idle"
    /\ pc' = "returned"
    /\ call' = c
    /\ UNCHANGED <<osgb36, wgs84, WGS84toOSGB36transform, tool, script>>

\* the record of a call lat_long_to_xyz(latitude, longitude, radians, datum)
XyzOf(latitude, longitude, radians, datum) ==
    [op |-> "lat_long_to_xyz", latitude |-> latitude, longitude |-> longitude,
     radians |-> radians, datum |-> datum,
     ret |-> lat_long_to_xyz(latitude, longitude, radians, DatumOf(datum))]

CallLatLongToXyz ==
    \E i \in 1..Len(Positions), radians \in BOOLEAN, datum \in {"osgb36", "wgs84"} :
        \E l \in Lengths(i) :
            /\ Fits(Positions, i, l[1], l[2])
            /\ Called(XyzOf(Angles(1, i, l[1], radians), Angles(2, i, l[2], radians),
                            radians, datum))

\* the record of a call that returned r
LatLongOf(x, y, z, radians, datum, of, r) ==
    [op |-> "xyz_to_lat_long", x |-> x, y |-> y, z |-> z,
     radians |-> radians, datum |-> datum, of |-> of,
     latitude |-> r.latitude, longitude |-> r.longitude, steps |-> r.steps,
     left |-> [x |-> r.x, y |-> r.y, z |-> r.z]]

\* the record of a call xyz_to_lat_long(x, y, z, radians, datum); of is the
\* (latitude, longitude) that x, y, z were converted from, if they were
XyzCall(x, y, z, radians, datum, of) ==
    LatLongOf(x, y, z, radians, datum, of,
              xyz_to_lat_long(x, y, z, radians, DatumOf(datum)))

\* xyz_to_lat_long(*lat_long_to_xyz(latitude, longitude, radians, datum), radians, datum)
RoundTrip ==
    /\ pc = "returned"
    /\ call.op = "lat_long_to_xyz"
    /\ ~IsExc(call.ret)
    /\ pc' = "returned"
    /\ call' = XyzCall(Row(call.ret, 0), Row(call.ret, 1), Row(call.ret, 2),
                       call.radians, call.datum,
                       [latitude |-> call.latitude, longitude |-> call.longitude])
    /\ UNCHANGED <<osgb36, wgs84, WGS84toOSGB36transform, tool, script>>

CallXyzToLatLong ==
    \E i \in 1..Len(Points), n \in 1..MaxBatch, radians \in BOOLEAN, short \in BOOLEAN :
        /\ Fits(Points, i, n, n)
        /\ short => n > 1
        /\ Called(XyzCall(Column(Points, 1, i, n),
                          Column(Points, 2, i, IF short THEN n - 1 ELSE n),
                          Column(Points, 3, i, n), radians, "osgb36", None))

\* the arguments a caller constructs a HelmertTransform with
HelmertParameters(name) ==
    IF name = "WGS84toOSGB36" THEN WGS84toOSGB36parameters
    ELSE [s |-> Zero, rx |-> Zero, ry |-> Zero, rz |-> Zero,
          T |-> Vec(<<Zero, Zero, Zero>>)]

\* the module's transform, or one the caller constructs
HelmertOf(name) ==
    IF name = "WGS84toOSGB36" THEN WGS84toOSGB36transform
    ELSE Construct(HelmertParameters(name))

\* the n sample points from the i-th on as the argument X: one point of
\* shape (3,), a 3 x n set with a point per column, an n x 3 array with a
\* point per row, or the first two coordinates of one point only
PointSet(form, i, n) ==
    IF form = "point"
    THEN Vec(<<FromInt(Points[i][1]), FromInt(Points[i][2]), FromInt(Points[i][3])>>)
    ELSE IF form = "short" THEN Vec(<<FromInt(Points[i][1]), FromInt(Points[i][2])>>)
    ELSE IF form = "columns"
         THEN array3(Column(Points, 1, i, n), Column(Points, 2, i, n),
                     Column(Points, 3, i, n))
    ELSE [shape |-> <<n, 3>>,
          data |-> [k \in 1..(3 * n) |->
                      FromInt(Points[i + ((k - 1) \div 3)][((k - 1) % 3) + 1])] \o <<>>]

\* the record of a call of the transform name on X
HelmertOn(name, X) ==
    [op |-> "HelmertTransform.__call__", transform |-> name,
     X |-> X, ret |-> HelmertCall(HelmertOf(name), X)]

CallHelmert ==
    \E name \in {"WGS84toOSGB36", "identity"}, i \in 1..Len(Points), n \in 1..MaxBatch,
       form \in {"point", "short", "columns", "rows"} :
        /\ Fits(Points, i, n, n)
        /\ form \in {"point", "short"} => n = 1
        /\ Called(HelmertOn(name, PointSet(form, i, n)))

\* the record of a call WGS84toOSGB36(latitude, longitude, radians) that returned r
ShiftOf(latitude, longitude, radians, r) ==
    [op |-> "WGS84toOSGB36", latitude |-> latitude, longitude |-> longitude,
     radians |-> radians,
     lat |-> r.lat, lon |-> r.lon, steps |-> r.steps, xyz |-> r.xyz, xyz2 |-> r.xyz2]

ShiftCall(latitude, longitude, radians) ==
    ShiftOf(latitude, longitude, radians, WGS84toOSGB36(latitude, longitude, radians))

CallWGS84toOSGB36 ==
    \E i \in 1..Len(Positions), radians \in BOOLEAN :
        \E l \in Lengths(i) :
            /\ Fits(Positions, i, l[1], l[2])
            /\ Called(ShiftCall(Angles(1, i, l[1], radians), Angles(2, i, l[2], radians),
                                radians))

\* the record of a call get_easting_northing_from_lat_long(latitude,
\* longitude, radians) that returned r
GridOf(latitude, longitude, radians, r) ==
    [op |-> "get_easting_northing_from_lat_long",
     latitude |-> latitude, longitude |-> longitude, radians |-> radians,
     easting |-> r.easting, northing |-> r.northing, lat |-> r.lat, lon |-> r.lon]

ENCall(latitude, longitude, radians) ==
    GridOf(latitude, longitude, radians,
           get_easting_northing_from_lat_long(latitude, longitude, radians))

\* the WGS84 position, in radians, that the datum shift takes to the true
\* origin of the National Grid (49 N, 2 W on OSGB36) to within the last
\* places of the format: 49.000327 N, 2.001383 W
OriginWGS84 ==
    [latitude |-> Vec(<<Num(-42, 14011, 13167, 14960)>>),
     longitude |-> Vec(<<FNeg(Num(-46, 9156, 8800, 4669))>>)]

CallGetEastingNorthing ==
    \/ \E i \in 1..Len(Positions), radians \in BOOLEAN :
           \E l \in Lengths(i) :
               /\ Fits(Positions, i, l[1], l[2])
               /\ Called(ENCall(Angles(1, i, l[1], radians), Angles(2, i, l[2], radians),
                                radians))
    \/ Called(ENCall(OriginWGS84.latitude, OriginWGS84.longitude, TRUE))

\* the longest sequence of postcodes of a call
MaxQuery == 2

\* the postcodes that callers ask for
Asked == <<YO1_7HH, SW1A_1AA, SW1A1AA, ZZ9_9ZZ>>

\* the sequences of one to MaxQuery postcodes
Queries == UNION {[1..n -> {Asked[k] : k \in 1..Len(Asked)}] : n \in 1..MaxQuery}

\* sample locations (easting, northing) in whole metres
Locations == <<<<3, 4>>, <<0, 0>>, <<6, 3>>, <<0, 6>>, <<20, 20>>, <<4, 0>>,
               <<468800, 235000>>, <<468800, 236000>>>>

\* tool = Tool(postcode_file, risk_file, values_file)
ConstructTool ==
    /\ pc = "idle"
    /\ tool = None
    /\ pc' = "returned"
    /\ call' = [op |-> "Tool.__init__"]
    /\ tool' = Tool(PostcodeFile, RiskFile, ValuesFile)
    /\ UNCHANGED <<osgb36, wgs84, WGS84toOSGB36transform, script>>

CallGetFloodCost ==
    \E postcodes \in Queries :
        /\ tool # None
        /\ Called([op |-> "Tool.get_flood_cost", postcodes |-> postcodes,
                   ret |-> get_flood_cost(tool, postcodes)])

CallGetFloodProbability ==
    \E i \in 1..Len(Locations), n \in 1..MaxBatch :
        /\ tool # None
        /\ Fits(Locations, i, n, n)
        /\ Called([op |-> "Tool.get_easting_northing_flood_probability",
                   easting |-> Column(Locations, 1, i, n),
                   northing |-> Column(Locations, 2, i, n),
                   ret |-> get_easting_northing_flood_probability(
                               tool, Column(Locations, 1, i, n),
                               Column(Locations, 2, i, n))])

\* the readings that the service answers: none, or a rainfall in mm
Readings == {NoReading, FromInt(1), Dec(2, 5, 10), FromInt(5)}

\* the passes of the script's loop: for i in range(3)
Passes == 3

\* lines 20 to 33 of step3_api.py, the Tool of line 25 constructed
Step3Start ==
    \E f \in 1..Len(ApiFiles) :
        /\ pc = "idle"
        /\ tool # None
        /\ pc' = "script"
        /\ script' = Started(ApiFiles[f], get_lat_long(tool, ApiFiles[f]))
        /\ UNCHANGED <<osgb36, wgs84, WGS84toOSGB36transform, call, tool>>

\* lines 37 to 98: a pass of the loop
Step3Pass ==
    \E station_value \in Readings :
        /\ pc = "script"
        /\ script.i < Passes
        /\ script' = [script EXCEPT !.i = @ + 1,
                                    !.printed = Append(@, Printed(tool, script,
                                                                  station_value))]
        /\ UNCHANGED <<osgb36, wgs84, WGS84toOSGB36transform, pc, call, tool>>

\* the script ends
Step3End ==
    /\ pc = "script"
    /\ script.i = Passes
    /\ pc' = "idle"
    /\ script' = None
    /\ UNCHANGED <<osgb36, wgs84, WGS84toOSGB36transform, call, tool>>

Return ==
    /\ pc = "returned"
    /\ pc' = "idle"
    /\ call' = None
    /\ UNCHANGED <<osgb36, wgs84, WGS84toOSGB36transform, tool, script>>

Next ==
    \/ CallLatLongToXyz
    \/ RoundTrip
    \/ CallXyzToLatLong
    \/ CallHelmert
    \/ CallWGS84toOSGB36
    \/ CallGetEastingNorthing
    \/ ConstructTool
    \/ CallGetFloodCost
    \/ CallGetFloodProbability
    \/ Step3Start
    \/ Step3Pass
    \/ Step3End
    \/ Return

Spec == Init /\ [][Next]_vars

(***************************************************************************)
(* The properties of the specification, each stated on the calls that the  *)
(* model records.                                                          *)
(***************************************************************************)
\* every element of the arrays A and C of one shape differs by tol at most
Close(A, C, tol) ==
    /\ ~IsExc(A) /\ ~IsExc(C)
    /\ Len(A.data) = Len(C.data)
    /\ \A i \in 1..Len(A.data) : FLe(FAbs(FSub(A.data[i], C.data[i])), tol)

\* a call of the operation op has returned (it may have raised)
Returned(op) == pc = "returned" /\ call.op = op

\* C1: the forward step of WGS84toOSGB36 converts the input to Cartesian
\* coordinates on the source ellipsoid wgs84 (a, b, e2, F_0 of WGS84 and
\* H = 0), not on osgb36: the xyz of every call that returned is
\* lat_long_to_xyz of its arguments on wgs84.
C1_ForwardStepOnWGS84 ==
    (Returned("WGS84toOSGB36") /\ ~IsExc(call.lat))
        => call.xyz = lat_long_to_xyz(call.latitude, call.longitude, call.radians, wgs84)

\* a millionth of a degree
Millionth == FDiv(FromInt(1), FromInt(1000000))

\* the round trip of a call lat_long_to_xyz on valid degrees (a longitude
\* for each latitude) and an ellipsoid with H = 0 has returned
RoundTripped ==
    /\ Returned("xyz_to_lat_long")
    /\ call.of # None
    /\ call.of.latitude.shape = call.of.longitude.shape
    /\ ~call.radians
    /\ DatumOf(call.datum).H = Zero

\* C2: for valid (lat, long) in degrees and an ellipsoid with H = 0,
\* xyz_to_lat_long(lat_long_to_xyz(lat, long)) returns (lat, long) to within
\* 1e-6 degrees.
C2_RoundTrip ==
    RoundTripped
        => /\ Close(call.latitude, call.of.latitude, Millionth)
           /\ Close(call.longitude, call.of.longitude, Millionth)

\* a round trip of a batch of two positions off the equator has returned
C2_Witness ==
    /\ RoundTripped
    /\ Len(call.of.latitude.data) = 2
    /\ call.of.latitude.data[1] = FromInt(52)
    /\ Close(call.latitude, call.of.latitude, Millionth)

\* C5: a call of xyz_to_lat_long that returns has made exactly 6 passes of
\* the Newton-Raphson loop, whatever the input, and its longitude is
\* arctan2(y, x), computed once and not changed by the passes.
C5_SixSteps ==
    (Returned("xyz_to_lat_long") /\ ~IsExc(call.latitude))
        => /\ call.steps = 6
           /\ call.longitude = IF call.radians THEN arctan2(call.y, call.x)
                               ELSE deg(arctan2(call.y, call.x))

\* a call on a batch that holds a point of the polar axis has returned
\* after its 6 passes
C5_Witness ==
    /\ Returned("xyz_to_lat_long")
    /\ ~IsExc(call.latitude)
    /\ call.steps = 6
    /\ Len(call.x.data) = 2
    /\ IsZero(call.x.data[1])

\* the element of the matrix I + S of a Helmert transform with the
\* parameters q at row r, column k (from 1)
Rotation(q, r, k) ==
    <<<<FAdd(One, q.s), FNeg(q.rz), q.ry>>,
      <<q.rz, FAdd(One, q.s), FNeg(q.rx)>>,
      <<FNeg(q.ry), q.rx, FAdd(One, q.s)>>>>[r][k]

\* coordinate k (from 1) of the point c (from 1) of the point set X, which
\* holds N points: a 3 x N array, or a point of shape (3,)
Coordinate(X, k, c) == X.data[(k - 1) * (Len(X.data) \div 3) + c]

\* T + (I + S) . X at row r of the point c
Applied(q, X, r, c) ==
    FAdd(q.T.data[r],
         FAdd(FAdd(FMul(Rotation(q, r, 1), Coordinate(X, 1, c)),
                   FMul(Rotation(q, r, 2), Coordinate(X, 2, c))),
              FMul(Rotation(q, r, 3), Coordinate(X, 3, c))))

\* a call of a Helmert transform on one point of shape (3,) or on a 3 x N
\* point set has returned
HelmertReturned ==
    /\ Returned("HelmertTransform.__call__")
    /\ call.X.shape \in {<<3>>} \cup {<<3, n>> : n \in 1..(MaxBatch + 1)}

\* C3: a HelmertTransform built with s = 0, rx = ry = rz = 0, T = (0, 0, 0)
\* returns every point and every 3 x N point set exactly unchanged, and a
\* transform with the parameters (s, rx, ry, rz, T) returns T + (I + S) . X
\* for S = [[s, -rz, ry], [rz, s, -rx], [-ry, rx, s]].
C3_Helmert ==
    HelmertReturned
        => /\ ~IsExc(call.ret)
           /\ call.ret.shape = <<3, Len(call.X.data) \div 3>>
           /\ call.transform = "identity" => call.ret.data = call.X.data
           /\ \A r \in 1..3, c \in 1..(Len(call.X.data) \div 3) :
                  Coordinate(call.ret, r, c)
                      = Applied(HelmertParameters(call.transform), call.X, r, c)

\* the identity has returned a set of two points unchanged
C3_Witness ==
    /\ HelmertReturned
    /\ call.transform = "identity"
    /\ call.X.shape = <<3, 2>>
    /\ call.ret.data = call.X.data

\* the element i (from 1) of the array A as an array of one element
Single(A, i) == Vec(<<A.data[i]>>)

\* the point i (from 1) of the 3 x N array X as a 3 x 1 array
Point(X, i) ==
    [shape |-> <<3, 1>>,
     data |-> <<Coordinate(X, 1, i), Coordinate(X, 2, i), Coordinate(X, 3, i)>>]

\* the arrays As of a call have one length
SameLength(As) == \A j \in 1..Len(As) : ~IsExc(As[j]) /\ As[j].shape = As[1].shape

\* C4 for lat_long_to_xyz: the point i of the returned 3 x N array is what
\* the call on latitude i and longitude i alone returns
C4_LatLongToXyz ==
    (Returned("lat_long_to_xyz") /\ SameLength(<<call.latitude, call.longitude>>))
        => \A i \in 1..Len(call.latitude.data) :
               Point(call.ret, i).data
                   = lat_long_to_xyz(Single(call.latitude, i), Single(call.longitude, i),
                                     call.radians, DatumOf(call.datum)).data

\* C4 for xyz_to_lat_long
C4_XyzToLatLong ==
    (Returned("xyz_to_lat_long") /\ SameLength(<<call.x, call.y, call.z>>))
        => \A i \in 1..Len(call.x.data) :
               LET r == xyz_to_lat_long(Single(call.x, i), Single(call.y, i),
                                        Single(call.z, i), call.radians,
                                        DatumOf(call.datum))
               IN  /\ Single(call.latitude, i) = r.latitude
                   /\ Single(call.longitude, i) = r.longitude

\* C4 for the Helmert transform
C4_Helmert ==
    (HelmertReturned /\ Len(call.X.shape) = 2)
        => \A i \in 1..call.X.shape[2] :
               Point(call.ret, i) = HelmertCall(HelmertOf(call.transform), Point(call.X, i))

\* C4 for WGS84toOSGB36
C4_WGS84toOSGB36 ==
    (Returned("WGS84toOSGB36") /\ SameLength(<<call.latitude, call.longitude>>))
        => \A i \in 1..Len(call.latitude.data) :
               LET r == WGS84toOSGB36(Single(call.latitude, i), Single(call.longitude, i),
                                      call.radians)
               IN  /\ Single(call.lat, i) = r.lat
                   /\ Single(call.lon, i) = r.lon

\* C4 for get_easting_northing_from_lat_long
C4_GetEastingNorthing ==
    (Returned("get_easting_northing_from_lat_long")
        /\ SameLength(<<call.latitude, call.longitude>>))
        => \A i \in 1..Len(call.latitude.data) :
               LET r == get_easting_northing_from_lat_long(
                            Single(call.latitude, i), Single(call.longitude, i),
                            call.radians)
               IN  /\ Single(call.easting, i) = r.easting
                   /\ Single(call.northing, i) = r.northing

\* C4: for every array of N points, the output at index i of
\* lat_long_to_xyz, xyz_to_lat_long, the Helmert transform, WGS84toOSGB36 and
\* get_easting_northing_from_lat_long depends on the input at index i only:
\* the batch call returns, point for point, what the calls on the single
\* points return.
C4_Elementwise ==
    /\ C4_LatLongToXyz
    /\ C4_XyzToLatLong
    /\ C4_Helmert
    /\ C4_WGS84toOSGB36
    /\ C4_GetEastingNorthing

\* a call of get_easting_northing_from_lat_long on two different positions
\* has returned two different eastings
C4_Witness ==
    /\ Returned("get_easting_northing_from_lat_long")
    /\ SameLength(<<call.latitude, call.longitude>>)
    /\ Len(call.latitude.data) = 2
    /\ call.latitude.data[1] # call.latitude.data[2]
    /\ ~IsExc(call.easting)
    /\ call.easting.data[1] # call.easting.data[2]

\* a billionth of a radian: some 6 mm on the ground
Billionth == FDiv(FromInt(1), FMul(FromInt(100000), FromInt(10000)))

\* the numbers a and b differ by tol at most
Near(a, b, tol) == FLe(FAbs(FSub(a, b)), tol)

\* the datum-shifted latitude and longitude of the point i of the call are
\* the true origin (phi_0, lam_0), to a billionth of a radian
AtOrigin(i) ==
    /\ Near(call.lat.data[i], osgb36.phi_0, Billionth)
    /\ Near(call.lon.data[i], osgb36.lam_0, Billionth)

\* C6: whenever the datum-shifted (OSGB36) latitude and longitude of the
\* input are the projection origin (phi_0, lam_0),
\* get_easting_northing_from_lat_long returns easting = E_0 and
\* northing = N_0 to within 1 metre.
C6_Origin ==
    (Returned("get_easting_northing_from_lat_long") /\ ~IsExc(call.easting))
        => \A i \in 1..Len(call.easting.data) :
               AtOrigin(i)
                   => /\ Near(call.easting.data[i], osgb36.E_0, One)
                      /\ Near(call.northing.data[i], osgb36.N_0, One)

\* a call on the WGS84 position of the origin has returned the false
\* origin (400000, -100000) to within a metre
C6_Witness ==
    /\ Returned("get_easting_northing_from_lat_long")
    /\ ~IsExc(call.easting)
    /\ AtOrigin(1)
    /\ Near(call.easting.data[1], FromInt(400000), One)
    /\ Near(call.northing.data[1], FromInt(-100000), One)

\* the call that returned raised an exception
Rejected ==
    CASE call.op = "lat_long_to_xyz" -> IsExc(call.ret)
      [] call.op = "xyz_to_lat_long" -> IsExc(call.latitude)
      [] call.op = "HelmertTransform.__call__" -> IsExc(call.ret)
      [] call.op = "WGS84toOSGB36" -> IsExc(call.lat)
      [] call.op = "get_easting_northing_from_lat_long" -> IsExc(call.easting)
      [] OTHER -> FALSE

\* the arguments of the call that returned do not fit: latitude and
\* longitude, or x, y and z, of unequal lengths, or a point set that is
\* neither a point of shape (3,) nor an array of 3 rows
ShapeMismatch ==
    CASE call.op \in {"lat_long_to_xyz", "WGS84toOSGB36",
                      "get_easting_northing_from_lat_long"} ->
             call.latitude.shape # call.longitude.shape
      [] call.op = "xyz_to_lat_long" ->
             call.x.shape # call.y.shape \/ call.y.shape # call.z.shape
      [] call.op = "HelmertTransform.__call__" ->
             call.X.shape # <<3>> /\ ~(Len(call.X.shape) = 2 /\ call.X.shape[1] = 3)
      [] OTHER -> FALSE

\* C7: a call whose latitude and longitude (or x, y, z) arrays have unequal
\* lengths, or a Helmert transform of a point set that does not have
\* exactly 3 rows, is rejected with an error: it is never silently
\* truncated, broadcast or reshaped.
C7_ShapeMismatchRejected ==
    (pc = "returned" /\ ShapeMismatch) => Rejected

\* the point i of a call of xyz_to_lat_long lies on the polar axis:
\* p = sqrt(x**2 + y**2) is 0 and the passes of the loop divide by it
OnAxis(i) == IsZero(call.x.data[i]) /\ IsZero(call.y.data[i])

Derived(d) ==
    /\ d.n = FDiv(FSub(d.a, d.b), FAdd(d.a, d.b))
    /\ d.e2 = FDiv(FSub(FMul(d.a, d.a), FMul(d.b, d.b)), FMul(d.a, d.a))
    /\ FLt(d.b, d.a)
    /\ FLt(Zero, d.b)

\* C9: after any sequence of calls every field of the wgs84 ellipsoid, of
\* the osgb36 datum and of the WGS84toOSGB36 Helmert constant (T, M) has
\* its construction-time value, with n = (a-b)/(a+b), e2 = (a^2-b^2)/a^2
\* and a > b > 0, and a call leaves the arrays of its caller unmodified.
C9_Immutable ==
    /\ osgb36 = osgb36_0
    /\ wgs84 = wgs84_0
    /\ WGS84toOSGB36transform = WGS84toOSGB36transform_0
    /\ Derived(osgb36)
    /\ Derived(wgs84)
    /\ Returned("xyz_to_lat_long")
           => call.left = [x |-> call.x, y |-> call.y, z |-> call.z]

\* a call of xyz_to_lat_long, made after the Tool was constructed, has
\* returned a latitude other than its argument z
C9_Witness ==
    /\ Returned("xyz_to_lat_long")
    /\ tool # None
    /\ ~IsExc(call.latitude)
    /\ call.latitude # call.z
    /\ call.left.z = call.z
    /\ osgb36 = osgb36_0

\* C10: Tool.get_flood_cost returns one value for each input postcode, in
\* the order of the input: the Total Value of the postcode when it is in
\* the postcode table, and numpy.nan for every invalid (unknown) postcode.
C10_FloodCost ==
    Returned("Tool.get_flood_cost")
        => /\ Len(call.ret.data) = Len(call.postcodes)
           /\ \A i \in 1..Len(call.postcodes) :
                  call.ret.data[i]
                      = IF Found(tool, call.postcodes[i]) = <<>> THEN NaN
                        ELSE Found(tool, call.postcodes[i])[1].TotalValue

\* the bands from the lowest to the highest
Bands == <<"Zero", "Very Low", "Low", "Medium", "High">>

\* the place of a band in the order High > Medium > Low > Very Low > Zero
Rank(band) == CHOOSE k \in 1..Len(Bands) : Bands[k] = band

Abs(n) == IF n < 0 THEN -n ELSE n

\* the location (x, y), in whole metres, lies in the circle: its distance
\* to the centre is the radius at most
Inside(x, y, circle) ==
    /\ Abs(x - circle.X) <= circle.radius
    /\ Abs(y - circle.Y) <= circle.radius
    /\ (x - circle.X) * (x - circle.X) + (y - circle.Y) * (y - circle.Y)
           <= circle.radius * circle.radius

\* the band is the highest of the circles of the risk table that hold the
\* location (x, y), and Zero when none holds it
Highest(band, x, y) ==
    /\ \A j \in 1..Len(tool.dff) :
           Inside(x, y, tool.dff[j]) => Rank(tool.dff[j].prob_4band) <= Rank(band)
    /\ \/ band = "Zero"
       \/ \E j \in 1..Len(tool.dff) :
              Inside(x, y, tool.dff[j]) /\ tool.dff[j].prob_4band = band

\* C11: Tool.get_easting_northing_flood_probability returns an entry for
\* each input location, in the order of the input: 'Zero' when the
\* location lies in no risk circle (distance to the centre > radius for
\* every row of the risk table) and otherwise the name of the highest band
\* (High > Medium > Low > Very Low) among the circles that contain it
\* (distance <= radius).
C11_FloodProbability ==
    Returned("Tool.get_easting_northing_flood_probability")
        => /\ Len(call.ret) = Len(call.easting.data)
           /\ \A i \in 1..Len(call.ret) :
                  Highest(call.ret[i], ToInt(call.easting.data[i]),
                          ToInt(call.northing.data[i]))

\* a call has returned Low for a location on the boundary of a Low circle
\* and in no other circle, before it Zero for a location in no circle
C11_Witness ==
    /\ Returned("Tool.get_easting_northing_flood_probability")
    /\ Len(call.ret) = 2
    /\ call.ret = <<"Medium", "Zero">>
    /\ call.easting.data[2] = FromInt(20)

\* the names of the first pass of the Newton-Raphson loop of the call that
\* returned: latitude (the first guess), its sine, cosine and tangent, p,
\* z, nu, dnu, f0 and f1
FirstPass ==
    Residual(Slope(Trig(FirstGuess(Polar([x |-> call.x, y |-> call.y, z |-> call.z]),
                                   DatumOf(call.datum))),
                   DatumOf(call.datum)),
             DatumOf(call.datum))

\* d nu / d lat of nu = a*F_0/sqrt(1 - e2*sin(lat)**2), which is
\* a*F_0*e2*sin(lat)*cos(lat)/(1 - e2*sin(lat)**2)**1.5
DerivativeOfNu(v, datum) ==
    div(mul(mul(mul(mul(Scalar(datum.a), Scalar(datum.F_0)), Scalar(datum.e2)),
                v.sinlat),
            v.coslat),
        power(Flattening(v, datum), Scalar(Dec(1, 5, 10))))

\* d f0 / d lat = e2*(nu*cos(lat) + dnu*sin(lat))/p - 1/cos(lat)**2
DerivativeOfF0(v, dnu, datum) ==
    sub(div(mul(Scalar(datum.e2), add(mul(v.nu, v.coslat), mul(dnu, v.sinlat))), v.p),
        div(Lit(1), ipow(v.coslat, 2)))

\* C12: in a Newton-Raphson pass of xyz_to_lat_long on points off the polar
\* axis, dnu is the derivative of nu = a*F_0/sqrt(1 - e2*sin(lat)**2) with
\* respect to lat, and f1 is the derivative of the residual f0, that is
\* e2*(nu*cos(lat) + dnu*sin(lat))/p - 1/cos(lat)**2 (both to a millionth).
C12_NewtonDerivatives ==
    (/\ Returned("xyz_to_lat_long")
     /\ ~IsExc(call.latitude)
     /\ \A i \in 1..Len(FirstPass.p.data) : ~IsZero(FirstPass.p.data[i]))
        => /\ Close(FirstPass.dnu, DerivativeOfNu(FirstPass, DatumOf(call.datum)),
                    Millionth)
           /\ Close(FirstPass.f1,
                    DerivativeOfF0(FirstPass, FirstPass.dnu, DatumOf(call.datum)),
                    Millionth)

\* the warning of the documented table for a band and a rainfall reading r:
\* "" when the table issues none
Warning(band, r) ==
    CASE band = "Very Low" /\ FLt(FromInt(3), r) -> "Yellow Warning, Medium Risk"
      [] band = "Low" /\ FLt(FromInt(2), r) -> "Yellow Warning, Medium Risk"
      [] band = "Medium" /\ FLt(FromInt(2), r) /\ FLt(r, FromInt(3))
           -> "Yellow Warning, Medium Risk"
      [] band = "Medium" /\ FLt(FromInt(3), r) -> "Red Warning, High Risk"
      [] band = "High" /\ FLt(r, FromInt(2)) -> "Yellow Warning, Medium Risk"
      [] band = "High" /\ FLt(FromInt(2), r) -> "Red Warning, High Risk"
      [] OTHER -> ""

\* what a pass issued: "No Risk" is the script's line for no warning
Issued(printed) == IF printed = "No Risk" THEN "" ELSE printed

\* the flood-risk band of the postcode k (from 1) of the script, at the
\* easting and northing the script computed for it
BandOfPostcode(k) ==
    get_easting_northing_flood_probability(tool, script.E_N[1], script.E_N[2])[k]

\* C13: for every postcode the script has processed and every rainfall
\* reading r it got for it, the script has issued exactly the warning of
\* its documented table for the flood-risk band of the postcode: none for
\* Zero, Yellow for Very Low with r > 3, Low with r > 2, Medium with
\* 2 < r < 3 and High with r < 2, Red for Medium with r > 3 and High with
\* r > 2.
C13_WarningTable ==
    pc = "script"
        => \A k \in 1..Len(script.printed) :
               script.printed[k].station_value # NoReading
                   => Issued(script.printed[k].printed)
                          = Warning(BandOfPostcode(k), script.printed[k].station_value)

\* the easting and northing of get_easting_northing_from_lat_long applied
\* to the raw Latitude and Longitude columns of the postcode table
OnceShifted ==
    get_easting_northing_from_lat_long(ColumnOf(PostcodeFile, "Latitude"),
                                       ColumnOf(PostcodeFile, "Longitude"), FALSE)

\* the row of the table the tool holds for the postcode k (from 1) of the
\* script, <<>> when it holds none
RowOf(k) == Found(tool, script.postcodes[k])

\* C14: the datum shift is applied exactly once on the way from the raw
\* Latitude and Longitude of a row of the postcode table to an easting and
\* northing: the Easting and Northing that Tool.__init__ stored for the row
\* are get_easting_northing_from_lat_long of the raw Latitude and Longitude
\* of the row, and are the values the step-3 script computed for the same
\* postcode.
C14_ShiftedOnce ==
    /\ tool # None
           => \A r \in 1..Len(tool.dfp) :
                  /\ tool.dfp[r].Easting = OnceShifted.easting.data[r]
                  /\ tool.dfp[r].Northing = OnceShifted.northing.data[r]
    /\ (tool # None /\ pc = "script")
           => \A k \in 1..Len(script.postcodes) :
                  RowOf(k) # <<>>
                      => /\ RowOf(k)[1].Easting = script.E_N[1].data[k]
                         /\ RowOf(k)[1].Northing = script.E_N[2].data[k]
=============================================================================
